---- MODULE Spec2Model ----
(***************************************************************************)
(* A model of minesweeper.py: the Board, its cells (flag state, click      *)
(* state, cell class), bomb placement with the derived neighbour counters, *)
(* coordinate validation and the recursive propagation of a click.         *)
(*                                                                         *)
(* Spec     : every client call (Board.click, Board.put_flag,              *)
(*            Board.remove_flag) is one action; the recursion of a click   *)
(*            is computed by the operators Board_click / click_neighbors.  *)
(* SpecStep : the same program with the recursion of Board.click unfolded  *)
(*            into an explicit call stack, one step per Board.click        *)
(*            invocation, used for termination.                            *)
(***************************************************************************)
EXTENDS Integers, Sequences, FiniteSets, Bags, TLC

\* ---------------------------------------------------------------- bounds
\* boards have 0..MaxRows rows and 0..MaxCols columns
MaxRows == 2
MaxCols == 3
\* and at most MaxCells cells under Spec, MaxStepCells cells under SpecStep
MaxCells == 6
MaxStepCells == 4
\* the bomb count passed to the constructor is 0..MaxBombs
MaxBombs == 2
\* cap on the depth of the unfolded recursion (never reached: a frame is
\* pushed only for a cell that was just clicked)
MaxDepth == 8

VARIABLES
    pc,       \* "new" (constructor not run), "failed" (constructor raised),
              \* "ready" (board built, no call in progress), "clicking"
              \* (inside Board.click, SpecStep), "returned" (a call just ended)
    rows,     \* Board.rows
    columns,  \* Board.columns
    bombs,    \* Board.bombs
    cells,    \* Board._cells : (row, column) -> cell
    raised,   \* exception raised by the last call, or "none"
    call,     \* the last client call: [op, row, column]
    pre,      \* Board._cells as it was when the last client call started
    log,      \* bag of the cells the last client call set to ClickedState
    stack     \* SpecStep: pending Board.click frames, innermost last

vars == <<pc, rows, columns, bombs, cells, raised, call, pre, log, stack>>

\* ------------------------------------------------------------- exceptions
NoException          == "none"
InvalidCellException == "InvalidCellException"
ValueError           == "ValueError"

\* ------------------------------------------------------------ cell states
\* str(self._counter) for the counters a cell can hold (0..8)
str(n) == <<"0", "1", "2", "3", "4", "5", "6", "7", "8">>[n + 1]

\* Cell.__init__ : a new cell has no flag and is unclicked
Cell == [flag |-> "NoFlag", clicked |-> "UnclikedState"]

\* BombCell()
BombCell == [class |-> "BombCell"] @@ Cell

\* PlainCell(counter)
PlainCell(counter) == [class |-> "PlainCell", counter |-> counter] @@ Cell

\* EmptyPlainCell()
EmptyPlainCell == [class |-> "EmptyPlainCell", counter |-> 0] @@ Cell

\* a factory that also builds an EmptyPlainCell for a counter of 1
build_plain_cell_empty_for_one(counter) ==
    IF counter <= 1 THEN EmptyPlainCell ELSE PlainCell(counter)

\* PlainCellFactory.build_plain_cell
build_plain_cell(counter) ==
    IF counter = 0 THEN EmptyPlainCell ELSE PlainCell(counter)

\* get_content of the three cell classes
get_content(a_cell) ==
    IF a_cell.class = "BombCell" THEN "B" ELSE str(a_cell.counter)

\* Flag.render / NoFlag.render
FlagState_render(a_cell) == IF a_cell.flag = "Flag" THEN "F" ELSE " "

\* a render that shows the content of a cell whether it is clicked or not
render_hidden_content(a_cell) == get_content(a_cell)

\* Cell.render -> ClickedState.render / UnclikedState.render
render(a_cell) ==
    IF a_cell.clicked = "ClickedState"
    THEN get_content(a_cell)
    ELSE FlagState_render(a_cell)

\* a call of Cell.render : the string it returns, and the cell it leaves
\* (no render method assigns a field)
Cell_render(a_cell) == [value |-> render(a_cell), cell |-> a_cell]

\* ------------------------------------------------------------------ board
\* the board's coordinates, as enumerated by range(rows) x range(columns)
Positions(r, c) == {<<x, y>> : x \in 0 .. r - 1, y \in 0 .. c - 1}

is_valid_row(row) == 0 <= row /\ row < rows

is_valid_column(column) == 0 <= column /\ column < columns

\* Board._validate_cell : the exception it raises, or "none"
validate_cell(row, column) ==
    IF ~is_valid_row(row) THEN InvalidCellException
    ELSE IF ~is_valid_column(column) THEN InvalidCellException
    ELSE NoException

\* a _get_neighbors that leaves the diagonals out
get_neighbors_orthogonal(row, column) ==
    {p \in {row - 1, row, row + 1} \X {column - 1, column, column + 1} :
        /\ is_valid_row(p[1])
        /\ is_valid_column(p[2])
        /\ p # <<row, column>>
        /\ (p[1] = row \/ p[2] = column)}

\* a _get_neighbors without the test that leaves the cell itself out
get_neighbors_with_self(row, column) ==
    {p \in {row - 1, row, row + 1} \X {column - 1, column, column + 1} :
        /\ is_valid_row(p[1])
        /\ is_valid_column(p[2])}

\* Board._get_neighbors
get_neighbors(row, column) ==
    {p \in {row - 1, row, row + 1} \X {column - 1, column, column + 1} :
        /\ is_valid_row(p[1])
        /\ is_valid_column(p[2])
        /\ p # <<row, column>>}

\* ------------------------------------------------------------ flag calls
\* a put_flag that does not ask the click state
Cell_put_flag_always(a_cell) == [a_cell EXCEPT !.flag = "Flag"]

\* ClickedState.put_flag (pass) / UnclikedState.put_flag
Cell_put_flag(a_cell) ==
    IF a_cell.clicked = "ClickedState"
    THEN a_cell
    ELSE [a_cell EXCEPT !.flag = "Flag"]

\* a remove_flag that puts the whole cell back into its initial state
Cell_remove_flag_reset(a_cell) ==
    [a_cell EXCEPT !.flag = "NoFlag", !.clicked = "UnclikedState"]

\* a remove_flag that toggles the flag
Cell_remove_flag_toggle(a_cell) ==
    [a_cell EXCEPT !.flag = IF @ = "Flag" THEN "NoFlag" ELSE "Flag"]

\* Cell.remove_flag
Cell_remove_flag(a_cell) == [a_cell EXCEPT !.flag = "NoFlag"]

\* Board.put_flag : the cell map and the exception after the call
Board_put_flag(cs, row, column) ==
    IF validate_cell(row, column) # NoException
    THEN [cells |-> cs, raised |-> validate_cell(row, column)]
    ELSE [cells  |-> [cs EXCEPT ![<<row, column>>] = Cell_put_flag(@)],
          raised |-> NoException]

\* a remove_flag without its _validate_cell line: the lookup in _cells fails
Board_remove_flag_unvalidated(cs, row, column) ==
    IF <<row, column>> \notin DOMAIN cs
    THEN [cells |-> cs, raised |-> "KeyError"]
    ELSE [cells  |-> [cs EXCEPT ![<<row, column>>] = Cell_remove_flag(@)],
          raised |-> NoException]

\* Board.remove_flag : the cell map and the exception after the call
Board_remove_flag(cs, row, column) ==
    IF validate_cell(row, column) # NoException
    THEN [cells |-> cs, raised |-> validate_cell(row, column)]
    ELSE [cells  |-> [cs EXCEPT ![<<row, column>>] = Cell_remove_flag(@)],
          raised |-> NoException]

\* ------------------------------------------------------------------ click
\* The recursion of a click is threaded through a record st:
\*   st.cells  : Board._cells
\*   st.raised : the exception in flight, or "none"
\*   st.log    : the bag of the cells set to ClickedState so far
RECURSIVE Board_click(_, _, _)
RECURSIVE click_neighbors(_, _)

\* a propagate_click that every plain cell, numbered or empty, passes on
propagate_click_numbered(st, p, neighbors) ==
    IF st.cells[p].class # "BombCell"
    THEN click_neighbors(st, neighbors)
    ELSE st

\* a propagate_click that a bomb passes on as an empty cell does
propagate_click_bomb(st, p, neighbors) ==
    IF st.cells[p].class # "PlainCell"
    THEN click_neighbors(st, neighbors)
    ELSE st

\* a propagate_click that no cell passes on
propagate_click_never(st, p, neighbors) == st

\* PlainCell.propagate_click / BombCell.propagate_click (return) and
\* EmptyPlainCell.propagate_click (click_neighbors)
propagate_click(st, p, neighbors) ==
    IF st.cells[p].class = "EmptyPlainCell"
    THEN click_neighbors(st, neighbors)
    ELSE st

\* UnclikedState.click
UnclikedState_click(st, p, neighbors) ==
    propagate_click([st EXCEPT !.cells[p].clicked = "ClickedState",
                               !.log = @ (+) SetToBag({p})],
                    p, neighbors)

\* ClickedState.click
ClickedState_click(st, p, neighbors) == st

\* NoFlag.click : a_cell._clicked.click(a_cell, board, neighbors)
NoFlag_click(st, p, neighbors) ==
    IF st.cells[p].clicked = "ClickedState"
    THEN ClickedState_click(st, p, neighbors)
    ELSE UnclikedState_click(st, p, neighbors)

\* a Flag.click that clicks through the flag
Flag_click_through(st, p, neighbors) == NoFlag_click(st, p, neighbors)

\* a Flag.click that takes the flag off instead of ignoring the click
Flag_click_unflags(st, p, neighbors) == [st EXCEPT !.cells[p].flag = "NoFlag"]

\* a Flag.click that leaves the flagged cell alone but passes the click on to
\* the unflagged neighbours, as the cell would if it were clicked
Flag_click_passes_on(st, p, neighbors) ==
    propagate_click(st, p, {n \in neighbors : st.cells[n].flag # "Flag"})

\* Flag.click
Flag_click(st, p, neighbors) == st

\* Cell.click : self._flag.click(self, board, neighbors)
Cell_click(st, p, neighbors) ==
    IF st.cells[p].flag = "Flag"
    THEN Flag_click(st, p, neighbors)
    ELSE NoFlag_click(st, p, neighbors)

\* a click_neighbors whose loop ends after its first neighbour
click_neighbors_first_only(st, neighbors) ==
    IF neighbors = {}
    THEN st
    ELSE LET each == CHOOSE x \in neighbors : TRUE
         IN  Board_click(st, each[1], each[2])

\* EmptyPlainCell.click_neighbors : the loop over the neighbour set; an
\* exception raised by a nested Board.click ends the loop
click_neighbors(st, neighbors) ==
    IF neighbors = {}
    THEN st
    ELSE LET each == CHOOSE x \in neighbors : TRUE
             st1  == Board_click(st, each[1], each[2])
         IN  IF st1.raised # NoException
             THEN st1
             ELSE click_neighbors(st1, neighbors \ {each})

\* Board.click
Board_click(st, row, column) ==
    IF validate_cell(row, column) # NoException
    THEN [st EXCEPT !.raised = validate_cell(row, column)]
    ELSE Cell_click(st, <<row, column>>, get_neighbors(row, column))

\* the record a client call of Board.click starts from
Enter(cs) == [cells |-> cs, raised |-> NoException, log |-> EmptyBag]

\* ---------------------------------------------------------- construction
\* a sample that draws with replacement: k draws, 1..k distinct members
sample_with_replacement(population, k) ==
    IF k < 0 \/ k > Cardinality(population)
    THEN {[raised |-> ValueError]}
    ELSE {[raised |-> NoException, value |-> s] :
            s \in {t \in SUBSET population :
                     /\ Cardinality(t) <= k
                     /\ (k > 0 => t # {})}}

\* random.sample(population, k) : what a call can do. It raises ValueError
\* when k is negative or larger than the population, and otherwise returns
\* k distinct members, any choice of them.
sample(population, k) ==
    IF k < 0 \/ k > Cardinality(population)
    THEN {[raised |-> ValueError]}
    ELSE {[raised |-> NoException, value |-> s] :
            s \in {t \in SUBSET population : Cardinality(t) = k}}

\* a placer that clamps the bomb count to the number of cells
get_bomb_positions_clamped(r, c, b) ==
    sample(Positions(r, c),
           IF b > Cardinality(Positions(r, c))
           THEN Cardinality(Positions(r, c))
           ELSE b)

\* RandomBombPlacerStrategy.get_bomb_positions : set(random.sample(...))
get_bomb_positions(r, c, b) == sample(Positions(r, c), b)

\* Board._place_bombs : the cell map built from the placer's positions
place_bombs(bombs_positions) ==
    LET bomb_cells  == [p \in bombs_positions |-> BombCell]
        counter(p)  == Cardinality({x \in get_neighbors(p[1], p[2]) :
                                      x \in DOMAIN bomb_cells})
        plain_cells == [p \in Positions(rows, columns) |->
                          build_plain_cell(counter(p))]
    IN  [p \in DOMAIN plain_cells \cup DOMAIN bomb_cells |->
            IF p \in DOMAIN bomb_cells THEN bomb_cells[p] ELSE plain_cells[p]]

NoCall == [op |-> "none", row |-> 0, column |-> 0]

\* before Board(rows, columns, bombs) runs, for boards of at most n cells
Setup(n) ==
    /\ pc = "new"
    /\ rows \in 0 .. MaxRows
    /\ columns \in 0 .. MaxCols
    /\ rows * columns <= n
    /\ bombs \in 0 .. MaxBombs
    /\ cells = <<>>
    /\ raised = NoException
    /\ call = NoCall
    /\ pre = <<>>
    /\ log = EmptyBag
    /\ stack = <<>>

Init == Setup(MaxCells)

\* Board.__init__ with the default bomb placer: an exception of the placer
\* leaves the constructor, and no Board exists
NewBoard ==
    /\ pc = "new"
    /\ \E placed \in get_bomb_positions(rows, columns, bombs) :
         IF placed.raised # NoException
         THEN /\ pc' = "failed"
              /\ raised' = placed.raised
              /\ cells' = cells
         ELSE /\ pc' = "ready"
              /\ raised' = NoException
              /\ cells' = place_bombs(placed.value)
    /\ UNCHANGED <<rows, columns, bombs, call, pre, log, stack>>

\* the coordinates a client passes: every cell of the board, and coordinates
\* with the row, the column or both one step outside either end of the range
Arguments ==
    Positions(rows, columns)
      \cup {<<-1, 0>>, <<rows, 0>>, <<0, -1>>, <<0, columns>>,
            <<-1, -1>>, <<rows, columns>>}

\* what the last client call was
Called(op, a) == [op |-> op, row |-> a[1], column |-> a[2]]

\* Board.click(row, column) called by the client with a = (row, column)
ClickAt(a) ==
    /\ pc = "ready"
    /\ LET st == Board_click(Enter(cells), a[1], a[2])
       IN  /\ cells' = st.cells
           /\ raised' = st.raised
           /\ log' = st.log
    /\ pc' = "returned"
    /\ UNCHANGED <<rows, columns, bombs, stack>>

\* Board.put_flag(row, column) called by the client with a = (row, column)
PutFlagAt(a) ==
    /\ pc = "ready"
    /\ LET st == Board_put_flag(cells, a[1], a[2])
       IN  /\ cells' = st.cells
           /\ raised' = st.raised
    /\ log' = EmptyBag
    /\ pc' = "returned"
    /\ UNCHANGED <<rows, columns, bombs, stack>>

\* Board.remove_flag(row, column) called by the client with a = (row, column)
RemoveFlagAt(a) ==
    /\ pc = "ready"
    /\ LET st == Board_remove_flag(cells, a[1], a[2])
       IN  /\ cells' = st.cells
           /\ raised' = st.raised
    /\ log' = EmptyBag
    /\ pc' = "returned"
    /\ UNCHANGED <<rows, columns, bombs, stack>>

\* the client calls, remembered with the cell map they started from
Click ==
    \E a \in Arguments :
        ClickAt(a) /\ call' = Called("click", a) /\ pre' = cells

PutFlag ==
    \E a \in Arguments :
        PutFlagAt(a) /\ call' = Called("put_flag", a) /\ pre' = cells

RemoveFlag ==
    \E a \in Arguments :
        RemoveFlagAt(a) /\ call' = Called("remove_flag", a) /\ pre' = cells

\* the call is over: the client has seen its outcome and is free to call again
Return ==
    /\ pc = "returned"
    /\ pc' = "ready"
    /\ raised' = NoException
    /\ call' = NoCall
    /\ pre' = <<>>
    /\ log' = EmptyBag
    /\ UNCHANGED <<rows, columns, bombs, cells, stack>>

\* BoardDrawer.draw : the loop over the board renders every cell once; the
\* cell map it leaves and, row by row, the strings it joins into the text
draw(cs) ==
    [cells |-> [p \in DOMAIN cs |-> Cell_render(cs[p]).cell],
     text  |-> [row \in 0 .. rows - 1 |->
                  [col \in 0 .. columns - 1 |->
                     Cell_render(cs[<<row, col>>]).value]]]

\* BoardDrawer.draw(board) called by the client
Draw ==
    /\ pc = "ready"
    /\ cells' = draw(cells).cells
    /\ raised' = NoException
    /\ log' = EmptyBag
    /\ pc' = "returned"
    /\ call' = [op |-> "draw", row |-> 0, column |-> 0]
    /\ pre' = cells
    /\ UNCHANGED <<rows, columns, bombs, stack>>

Next == NewBoard \/ Click \/ PutFlag \/ RemoveFlag \/ Draw \/ Return

Spec == Init /\ [][Next]_vars

\* a client that only reveals: Board.click is the only method it calls
NextReveal == NewBoard \/ Click \/ Return

SpecReveal == Init /\ [][NextReveal]_vars

\* ------------------------------------------------------ Board.click, unfolded
\* an invocation in which a clicked cell is clicked again (ClickedState.click
\* acting as UnclikedState.click)
invoke_click_revisit(cs, stk, lg, row, column) ==
    LET p == <<row, column>> IN
    IF validate_cell(row, column) # NoException
    THEN [cells |-> cs, stack |-> <<>>, log |-> lg,
          raised |-> validate_cell(row, column)]
    ELSE IF cs[p].flag = "Flag"
    THEN [cells |-> cs, stack |-> stk, log |-> lg, raised |-> NoException]
    ELSE [cells  |-> [cs EXCEPT ![p].clicked = "ClickedState"],
          stack  |-> IF cs[p].class = "EmptyPlainCell"
                     THEN Append(stk, [cell |-> p,
                                       todo |-> get_neighbors(row, column)])
                     ELSE stk,
          log    |-> lg (+) SetToBag({p}),
          raised |-> NoException]

\* One invocation of Board.click(row, column) up to the point where it either
\* returns or starts the loop of click_neighbors: the validation, Flag.click /
\* NoFlag.click, ClickedState.click / UnclikedState.click and propagate_click.
\* A cell that starts the loop pushes a frame [cell, todo] with the neighbours
\* still to be clicked.
invoke_click(cs, stk, lg, row, column) ==
    LET p == <<row, column>> IN
    IF validate_cell(row, column) # NoException
    THEN [cells |-> cs, stack |-> <<>>, log |-> lg,
          raised |-> validate_cell(row, column)]
    ELSE IF cs[p].flag = "Flag" \/ cs[p].clicked = "ClickedState"
    THEN [cells |-> cs, stack |-> stk, log |-> lg, raised |-> NoException]
    ELSE [cells  |-> [cs EXCEPT ![p].clicked = "ClickedState"],
          stack  |-> IF cs[p].class = "EmptyPlainCell"
                     THEN Append(stk, [cell |-> p,
                                       todo |-> get_neighbors(row, column)])
                     ELSE stk,
          log    |-> lg (+) SetToBag({p}),
          raised |-> NoException]

\* the state after one unfolded step that left st
Resume(st) ==
    /\ cells' = st.cells
    /\ stack' = st.stack
    /\ log' = st.log
    /\ raised' = st.raised
    /\ pc' = IF st.stack = <<>> THEN "returned" ELSE "clicking"

\* a client call of Board.click(row, column) begins
StepClick ==
    /\ pc = "ready"
    /\ \E a \in Arguments :
         Resume(invoke_click(cells, <<>>, EmptyBag, a[1], a[2]))
    /\ UNCHANGED <<rows, columns, bombs, call, pre>>

\* click_neighbors of the innermost frame takes its next neighbour, in
\* whatever order the set yields it, and calls board.click(*each)
StepNeighbor ==
    /\ pc = "clicking"
    /\ Len(stack) < MaxDepth
    /\ LET top == stack[Len(stack)] IN
       \E each \in top.todo :
         Resume(invoke_click(cells,
                             [stack EXCEPT ![Len(stack)].todo = @ \ {each}],
                             log, each[1], each[2]))
    /\ UNCHANGED <<rows, columns, bombs, call, pre>>

\* click_neighbors of the innermost frame has no neighbour left: the
\* invocation of Board.click that started it returns
StepReturn ==
    /\ pc = "clicking"
    /\ stack[Len(stack)].todo = {}
    /\ stack' = SubSeq(stack, 1, Len(stack) - 1)
    /\ pc' = IF Len(stack) = 1 THEN "returned" ELSE "clicking"
    /\ UNCHANGED <<rows, columns, bombs, cells, raised, call, pre, log>>

\* the flag calls between clicks
StepPutFlag == \E a \in Arguments : PutFlagAt(a) /\ UNCHANGED <<call, pre>>

StepRemoveFlag == \E a \in Arguments : RemoveFlagAt(a) /\ UNCHANGED <<call, pre>>

NextStep ==
    \/ NewBoard
    \/ StepClick
    \/ StepNeighbor
    \/ StepReturn
    \/ StepPutFlag
    \/ StepRemoveFlag
    \/ Return

\* a call in progress runs on: the program is single-threaded and synchronous
InitStep == Setup(MaxStepCells)

SpecStep ==
    InitStep /\ [][NextStep]_vars /\ WF_vars(StepNeighbor) /\ WF_vars(StepReturn)

\* ================================================================ properties
Hidden(a_cell) == a_cell.clicked = "UnclikedState"

Revealed(a_cell) == a_cell.clicked = "ClickedState"

HasFlag(a_cell) == a_cell.flag = "Flag"

\* the coordinates of a rows x columns board
Grid == (0 .. rows - 1) \X (0 .. columns - 1)

\* a client call has just ended
Returned(op) == pc = "returned" /\ call.op = op

\* the coordinate the last client call addressed
addressed == <<call.row, call.column>>

\* C1: a reveal addressed to a Hidden, Flagged cell leaves it Hidden and
\* Flagged; when the flag is then removed, a reveal of the same coordinate
\* makes the cell Revealed. A flag call on a Hidden cell makes it Flagged.
C1_FlagGatesReveal ==
    /\ (Returned("put_flag") /\ addressed \in Grid /\ Hidden(pre[addressed]))
         => (Hidden(cells[addressed]) /\ HasFlag(cells[addressed]))
    /\ (Returned("click") /\ addressed \in Grid
          /\ Hidden(pre[addressed]) /\ HasFlag(pre[addressed]))
         => LET unflagged == Board_remove_flag(cells, call.row, call.column)
                again     == Board_click(Enter(unflagged.cells),
                                         call.row, call.column)
            IN  /\ Hidden(cells[addressed])
                /\ HasFlag(cells[addressed])
                /\ raised = NoException
                /\ unflagged.raised = NoException
                /\ again.raised = NoException
                /\ Revealed(again.cells[addressed])

\* C1 witness: a reveal was addressed to a Hidden, Flagged cell
C1_Witness ==
    /\ Returned("click")
    /\ addressed \in Grid
    /\ Hidden(pre[addressed])
    /\ HasFlag(pre[addressed])

\* C2: a cell that is Revealed stays Revealed over every step
C2_RevealIsTerminal ==
    [][\A p \in DOMAIN cells :
          Revealed(cells[p]) => (p \in DOMAIN cells' /\ Revealed(cells'[p]))]_vars

\* C2 witness: a flag was removed from the coordinate of a Revealed cell
C2_Witness ==
    /\ Returned("remove_flag")
    /\ addressed \in Grid
    /\ Revealed(pre[addressed])
    /\ Revealed(cells[addressed])

\* two coordinates are next to each other, diagonals included
Adjacent(p, q) ==
    /\ p # q
    /\ p[1] - q[1] \in {-1, 0, 1}
    /\ p[2] - q[2] \in {-1, 0, 1}

IsEmpty(p) == cells[p].class = "EmptyPlainCell"

IsNumbered(p) == cells[p].class = "PlainCell"

IsBomb(p) == cells[p].class = "BombCell"

\* the Empty cells connected to the cells of S through Empty cells
RECURSIVE Connected(_)
Connected(S) ==
    LET more == {q \in Grid : IsEmpty(q) /\ \E s \in S : Adjacent(s, q)}
    IN  IF more \subseteq S THEN S ELSE Connected(S \cup more)

\* the connected region of Empty cells of an Empty cell p
Region(p) == Connected({p})

\* the cells next to a region that are not in it
Border(R) == {q \in Grid \ R : \E s \in R : Adjacent(s, q)}

\* the cells the last call turned from Hidden to Revealed
Transitioned == {q \in Grid : Hidden(pre[q]) /\ Revealed(cells[q])}

\* what C3 promises of a reveal of an Empty cell with region R
RegionOutcome(R, border) ==
    /\ Cardinality(Transitioned) >= Cardinality(R)
    /\ BagCardinality(log) >= Cardinality(R)
    /\ \A b \in border : Revealed(cells[b])
    /\ \A q \in Grid \ (R \cup Border(R)) : cells[q].clicked = pre[q].clicked

\* C3 as stated: whenever reveal is called on an Empty cell whose region has
\* k cells, at least k cells go from Hidden to Revealed, the Numbered cells
\* bordering the region are Revealed afterwards, and no cell beyond the
\* border is revealed.
C3_Original ==
    (Returned("click") /\ addressed \in Grid /\ IsEmpty(addressed))
      => LET R == Region(addressed)
         IN  RegionOutcome(R, {b \in Border(R) : IsNumbered(b)})

\* C3 amended: whenever reveal is called on an Empty cell and every cell of
\* its region (k cells) is Hidden and Unflagged when the call starts, at
\* least k cells go from Hidden to Revealed by that call, the Numbered cells
\* bordering the region that carry no flag are Revealed afterwards, and no
\* cell outside the region and its border changes its reveal state.
C3_RegionRevealed ==
    (Returned("click") /\ addressed \in Grid /\ IsEmpty(addressed))
      => LET R == Region(addressed)
         IN  (\A r \in R : Hidden(pre[r]) /\ ~HasFlag(pre[r]))
               => /\ RegionOutcome(R, {b \in Border(R) :
                                         IsNumbered(b) /\ ~HasFlag(pre[b])})
                  /\ \A r \in R : Revealed(cells[r])

\* C3 witness: a reveal of an Empty cell with a region of two or more
\* cells, all Hidden and Unflagged, a Numbered border and a Hidden cell
\* beyond the border
C3_Witness ==
    /\ Returned("click")
    /\ addressed \in Grid
    /\ IsEmpty(addressed)
    /\ LET R == Region(addressed)
       IN  /\ \A r \in R : Hidden(pre[r]) /\ ~HasFlag(pre[r])
           /\ Cardinality(R) >= 2
           /\ \E b \in Border(R) : IsNumbered(b) /\ Revealed(cells[b])
           /\ \E q \in Grid \ (R \cup Border(R)) : Hidden(cells[q])

\* C4: every reveal terminates, and within one client call no cell is set
\* to ClickedState more than once, so at most rows * columns cells are
\* revealed by it.
C4_CascadeTerminates ==
    /\ [](\A p \in DOMAIN log : log[p] <= 1)
    /\ [](BagCardinality(log) <= rows * columns)
    /\ [](Len(stack) <= rows * columns)
    /\ (pc = "clicking" ~> pc = "returned")

\* C4 witness: a reveal that cascaded over three cells and met a flagged
\* cell has returned
C4_Witness ==
    /\ pc = "returned"
    /\ BagCardinality(log) >= 3
    /\ \E p \in Grid : Hidden(cells[p]) /\ HasFlag(cells[p])

\* the display of a cell map, cell by cell
Display(cs) == [p \in DOMAIN cs |-> render(cs[p])]

\* C5: after a reveal of an in-bounds coordinate, a second reveal of the
\* same coordinate changes nothing: reveal state, flag state and displayed
\* content of every cell are as the first reveal left them.
C5_RevealIdempotent ==
    (Returned("click") /\ addressed \in Grid)
      => LET again == Board_click(Enter(cells), call.row, call.column)
         IN  /\ again.cells = cells
             /\ again.raised = raised
             /\ again.log = EmptyBag
             /\ Display(again.cells) = Display(cells)
             /\ \A p \in Grid :
                  /\ again.cells[p].clicked = cells[p].clicked
                  /\ again.cells[p].flag = cells[p].flag

\* C5 witness: a first reveal that cascaded has returned
C5_Witness ==
    /\ Returned("click")
    /\ addressed \in Grid
    /\ BagCardinality(log) >= 3
    /\ Display(cells) # Display(pre)

\* C6: a reveal, flag or unflag with the row or the column out of range
\* raises InvalidCellException and leaves every cell as it was.
C6_OutOfRangeRaises ==
    (pc = "returned" /\ call.op \in {"click", "put_flag", "remove_flag"}
       /\ addressed \notin Grid)
      => (raised = InvalidCellException /\ cells = pre)

\* C6 witness: an unflag with a good row and a bad column, on a board that
\* has a flagged cell in that row
C6_Witness ==
    /\ Returned("remove_flag")
    /\ call.row \in 0 .. rows - 1
    /\ call.column = columns
    /\ raised = InvalidCellException
    /\ \E p \in Grid : p[1] = call.row /\ HasFlag(cells[p])

\* C7: a call with in-range coordinates raises nothing, and revealing a
\* Revealed cell, flagging a Revealed cell, flagging a Flagged cell and
\* unflagging an Unflagged cell leave the whole board as it was;
\* InvalidCellException is raised only for out-of-range coordinates.
C7_InBoundsNeverRaises ==
    /\ (pc = "returned" /\ raised = InvalidCellException)
         => addressed \notin Grid
    /\ (pc = "returned" /\ call.op \in {"click", "put_flag", "remove_flag"}
          /\ addressed \in Grid)
         => /\ raised = NoException
            /\ (call.op = "click" /\ Revealed(pre[addressed])) => cells = pre
            /\ (call.op = "put_flag" /\ Revealed(pre[addressed])) => cells = pre
            /\ (call.op = "put_flag" /\ HasFlag(pre[addressed])) => cells = pre
            /\ (call.op = "remove_flag" /\ ~HasFlag(pre[addressed]))
                 => cells = pre

\* C7 witness: a flag call addressed to a Revealed cell has returned
C7_Witness ==
    /\ Returned("put_flag")
    /\ addressed \in Grid
    /\ Revealed(pre[addressed])
    /\ raised = NoException

\* a Board exists and no call on it is in progress: the state the client
\* sees after the constructor and after every call
Constructed == pc = "ready"

\* the bombs next to p, counted by a scan of the whole grid
BombsAround(p) == Cardinality({q \in Grid : Adjacent(p, q) /\ IsBomb(q)})

\* C8: on every constructed board, the counter of every cell that is not a
\* bomb is the number of bombs among its in-bounds 8-neighbours; the cell is
\* Empty exactly when that number is 0 and Numbered, with that number, when
\* it is 1 or more.
C8_CountersMatchScan ==
    Constructed =>
      \A p \in Grid :
        ~IsBomb(p) =>
          LET n == BombsAround(p)
          IN  /\ cells[p].counter = n
              /\ IsEmpty(p) <=> n = 0
              /\ IsNumbered(p) <=> n >= 1
              /\ get_content(cells[p]) = str(n)

\* C8 witness: a board with a cell next to two bombs, one of them
\* diagonally, and an Empty cell
C8_Witness ==
    /\ pc = "ready"
    /\ \E p \in Grid : IsNumbered(p) /\ cells[p].counter = 2
          /\ \E q \in Grid : IsBomb(q) /\ q[1] # p[1] /\ q[2] # p[2]
                               /\ Adjacent(p, q)
    /\ \E p \in Grid : IsEmpty(p)

\* C9: a constructed board has exactly one cell per coordinate of
\* [0, rows) x [0, columns), and exactly `bombs` of them are bombs, after
\* construction and after every reveal, flag and unflag.
C9_OneCellPerCoordinate ==
    Constructed =>
      /\ DOMAIN cells = Grid
      /\ Cardinality(DOMAIN cells) = rows * columns
      /\ Cardinality({p \in DOMAIN cells : IsBomb(p)}) = bombs

\* C9 witness: a board with two bombs on which cells have been revealed
\* and a flag has been put
C9_Witness ==
    /\ pc = "ready"
    /\ bombs = 2
    /\ \E p \in Grid : Revealed(cells[p]) /\ IsEmpty(p)
    /\ \E p \in Grid : Revealed(cells[p]) /\ IsBomb(p)
    /\ \E p \in Grid : Hidden(cells[p]) /\ HasFlag(cells[p])

\* C10: with a bomb count larger than rows * columns the constructor
\* raises: no board is ever produced, and no later call can be made on one.
C10_TooManyBombsFails ==
    (bombs > rows * columns)
      => /\ pc \in {"new", "failed"}
         /\ cells = <<>>
         /\ pc = "failed" => raised = ValueError

\* C10 witness: the constructor has raised for a board of one cell and a
\* bomb count of two
C10_Witness ==
    /\ pc = "failed"
    /\ raised = ValueError
    /\ rows * columns = 1
    /\ bombs > rows * columns

\* the cell p lies in the first or last row, in the first or last column
OnRowEdge(p) == p[1] = 0 \/ p[1] = rows - 1

OnColumnEdge(p) == p[2] = 0 \/ p[2] = columns - 1

\* C11: on every board, for every in-bounds coordinate p, _get_neighbors is
\* exactly the set of in-range coordinates at distance at most 1 in both
\* axes other than p: it never holds p or an out-of-range coordinate, it has
\* 3 members at a corner and 5 on an edge away from the corners of a board
\* of at least 2 x 2, and it is empty on a 1 x 1 board.
C11_NeighborsExact ==
    Constructed =>
      \A p \in Grid :
        LET neighbors == get_neighbors(p[1], p[2])
        IN  /\ neighbors = {q \in Grid : Adjacent(p, q)}
            /\ p \notin neighbors
            /\ neighbors \subseteq Grid
            /\ (rows >= 2 /\ columns >= 2 /\ OnRowEdge(p) /\ OnColumnEdge(p))
                 => Cardinality(neighbors) = 3
            /\ (rows >= 2 /\ columns >= 2 /\ OnRowEdge(p) # OnColumnEdge(p))
                 => Cardinality(neighbors) = 5
            /\ (rows = 1 /\ columns = 1) => neighbors = {}

\* C11 witness: a board of at least 2 x 3 whose cell (0, 1) lies on an edge
\* between two corners and has five neighbours
C11_Witness ==
    /\ Constructed
    /\ rows >= 2
    /\ columns >= 3
    /\ Cardinality(get_neighbors(0, 1)) = 5
    /\ Cardinality(get_neighbors(0, 0)) = 3

\* C12: a reveal addressed to a Bomb cell or to a Numbered cell does not
\* propagate: it sets at most the addressed cell to Revealed, and the reveal
\* state and the flag state of every other cell are as before the call.
C12_BombAndNumberedDoNotPropagate ==
    (Returned("click") /\ addressed \in Grid
       /\ (IsBomb(addressed) \/ IsNumbered(addressed)))
      => /\ \A q \in Grid \ {addressed} : cells[q] = pre[q]
         /\ cells[addressed].flag = pre[addressed].flag
         /\ Transitioned \subseteq {addressed}
         /\ DOMAIN log \subseteq {addressed}
         /\ raised = NoException

\* C12 witness: a reveal of a Hidden bomb has returned and has revealed it,
\* on a board where a Numbered neighbour of the bomb was Hidden and Unflagged
C12_Witness ==
    /\ Returned("click")
    /\ addressed \in Grid
    /\ IsBomb(addressed)
    /\ Hidden(pre[addressed])
    /\ Revealed(cells[addressed])
    /\ \E q \in Grid : /\ Adjacent(addressed, q)
                       /\ Hidden(pre[q])
                       /\ ~HasFlag(pre[q])
                       /\ IsNumbered(q)

\* what the state of the cell at p says it displays
Shown(p) ==
    IF Revealed(cells[p])
    THEN IF IsBomb(p) THEN "B" ELSE str(BombsAround(p))
    ELSE IF HasFlag(cells[p]) THEN "F" ELSE " "

\* C13: whenever the board is drawn, a Revealed cell displays "B" when it is
\* a bomb and otherwise the number of bombs among its neighbours, a Hidden
\* cell with a flag displays "F" and a Hidden cell without one displays a
\* blank; rendering changes no cell and raises nothing.
C13_DisplayFollowsState ==
    Returned("draw") =>
      /\ cells = pre
      /\ raised = NoException
      /\ \A p \in Grid :
           /\ Cell_render(pre[p]).value = Shown(p)
           /\ Cell_render(pre[p]).cell = pre[p]
           /\ draw(pre).text[p[1]][p[2]] = Shown(p)

\* C13 witness: a board has been drawn that has a Revealed bomb, a Revealed
\* Numbered cell, a Revealed Empty cell, a Hidden cell with a flag and a
\* Hidden cell without one
C13_Witness ==
    /\ Returned("draw")
    /\ \E p \in Grid : Revealed(cells[p]) /\ IsBomb(p)
    /\ \E p \in Grid : Revealed(cells[p]) /\ IsNumbered(p)
    /\ \E p \in Grid : Revealed(cells[p]) /\ IsEmpty(p)
    /\ \E p \in Grid : Hidden(cells[p]) /\ HasFlag(cells[p])
    /\ \E p \in Grid : Hidden(cells[p]) /\ ~HasFlag(cells[p])

\* the cell at p could be revealed when the last call started
Revealable(p) == Hidden(pre[p]) /\ ~HasFlag(pre[p])

\* the least set that contains S and, with every Empty cell in it, the
\* neighbours of that cell that were Hidden and Unflagged when the call
\* started
RECURSIVE Cascade(_)
Cascade(S) ==
    LET more == {q \in Grid :
                   /\ Revealable(q)
                   /\ \E s \in S : IsEmpty(s) /\ Adjacent(s, q)}
    IN  IF more \subseteq S THEN S ELSE Cascade(S \cup more)

\* C14: a reveal addressed to a Hidden, Unflagged cell turns exactly the
\* cells of the least cascade set of that cell from Hidden to Revealed;
\* every cell outside the set keeps its reveal state and no cell changes its
\* flag state.
C14_ExactCascade ==
    (Returned("click") /\ addressed \in Grid /\ Revealable(addressed))
      => LET S == Cascade({addressed})
         IN  /\ Transitioned = S
             /\ BagToSet(log) = S
             /\ \A q \in Grid \ S : cells[q].clicked = pre[q].clicked
             /\ \A q \in Grid : cells[q].flag = pre[q].flag
             /\ raised = NoException

\* C14 witness: a reveal of an Empty cell has returned whose cascade went
\* through a second Empty cell, revealed a Numbered cell, left a flagged
\* neighbour Hidden and did not come to another Hidden cell
C14_Witness ==
    /\ Returned("click")
    /\ addressed \in Grid
    /\ Revealable(addressed)
    /\ IsEmpty(addressed)
    /\ \E q \in Transitioned \ {addressed} : IsEmpty(q)
    /\ \E q \in Transitioned : IsNumbered(q)
    /\ \E q \in Grid : HasFlag(pre[q]) /\ Hidden(cells[q])
                         /\ \E s \in Transitioned : IsEmpty(s) /\ Adjacent(s, q)
    /\ \E q \in Grid : Revealable(q) /\ Hidden(cells[q])

\* C15: a cell that is Hidden and Flagged when a reveal of another
\* coordinate starts is Hidden and Flagged when it returns and was never set
\* to Revealed in between, and the cascade does not pass through it: the
\* cells revealed are within the cascade set of the addressed cell, which
\* takes in no neighbour through a flagged cell.
C15_FlagStopsCascade ==
    Returned("click") =>
      /\ \A q \in Grid \ {addressed} :
           (Hidden(pre[q]) /\ HasFlag(pre[q]))
             => /\ cells[q] = pre[q]
                /\ ~BagIn(q, log)
      /\ Transitioned \subseteq
           (IF addressed \in Grid /\ Revealable(addressed)
            THEN Cascade({addressed})
            ELSE {})

\* C15 witness: a cascade has come to a flagged Empty cell and has left it
\* Hidden and Flagged, and a neighbour of that cell, Hidden and Unflagged
\* before the call, is still Hidden
C15_Witness ==
    /\ Returned("click")
    /\ addressed \in Grid
    /\ \E q \in Grid \ {addressed} :
         /\ IsEmpty(q)
         /\ HasFlag(pre[q])
         /\ Hidden(cells[q])
         /\ HasFlag(cells[q])
         /\ \E s \in Transitioned : IsEmpty(s) /\ Adjacent(s, q)
         /\ \E n \in Grid : Adjacent(q, n) /\ Revealable(n) /\ Hidden(cells[n])

\* the bombs that the step turns from Hidden to Revealed
BombsRevealedByStep ==
    {p \in DOMAIN cells : IsBomb(p) /\ Hidden(cells[p]) /\ Revealed(cells'[p])}

\* C16: no neighbour of an Empty cell is a bomb, and no propagated reveal
\* (a step of a cascade in progress) turns a bomb from Hidden to Revealed; a
\* bomb is revealed only by the step in which the client's own call clicks
\* it, and that call then ends with this one cell revealed.
C16_CascadeNeverRevealsBomb ==
    /\ [](\A p \in DOMAIN cells :
            IsEmpty(p) => \A q \in get_neighbors(p[1], p[2]) : ~IsBomb(q))
    /\ [][/\ pc = "clicking" => BombsRevealedByStep = {}
          /\ \A b \in BombsRevealedByStep :
               /\ pc = "ready"
               /\ pc' = "returned"
               /\ log' = SetToBag({b})]_vars

\* C16 witness: a cascade that started at an Empty cell has returned, and
\* a bomb next to a Numbered cell it revealed is still Hidden and Unflagged
C16_Witness ==
    /\ pc = "returned"
    /\ \E e \in Grid : IsEmpty(e) /\ BagIn(e, log)
    /\ \E b \in Grid :
         /\ IsBomb(b)
         /\ Hidden(cells[b])
         /\ ~HasFlag(cells[b])
         /\ \E n \in Grid : IsNumbered(n) /\ BagIn(n, log) /\ Adjacent(n, b)

\* C17: in every state of the board, whatever calls led to it and also while
\* a call has just changed the cells, no cell is both Revealed and Flagged.
C17_NeverRevealedAndFlagged ==
    \A p \in DOMAIN cells : ~(Revealed(cells[p]) /\ HasFlag(cells[p]))

\* C17 witness: a flag call addressed to a Revealed cell has returned, on a
\* board where another cell is Hidden and Flagged
C17_Witness ==
    /\ Returned("put_flag")
    /\ addressed \in Grid
    /\ Revealed(pre[addressed])
    /\ \E q \in Grid : Hidden(cells[q]) /\ HasFlag(cells[q])
    /\ \E q \in Grid : Revealed(cells[q]) /\ q # addressed

\* C18: a flag or unflag call with an in-bounds coordinate changes nothing
\* but the flag state of the addressed cell: after a flag call on a Hidden
\* cell the cell is Flagged, after an unflag call it is Unflagged, and in
\* both cases every cell has the reveal state it had, every other cell is
\* as it was, and no cell was clicked.
C18_FlagCallsFrame ==
    (pc = "returned" /\ call.op \in {"put_flag", "remove_flag"}
       /\ addressed \in Grid)
      => /\ \A q \in Grid \ {addressed} : cells[q] = pre[q]
         /\ \A q \in Grid : cells[q].clicked = pre[q].clicked
         /\ cells[addressed] = [pre[addressed] EXCEPT !.flag = cells[addressed].flag]
         /\ (call.op = "put_flag" /\ Hidden(pre[addressed]))
              => HasFlag(cells[addressed])
         /\ call.op = "remove_flag" => ~HasFlag(cells[addressed])
         /\ log = EmptyBag
         /\ raised = NoException

\* C18 witness: an unflag call has taken the flag off a Hidden cell next to
\* a Hidden Empty cell, on a board with another flagged cell and a Revealed
\* cell
C18_Witness ==
    /\ Returned("remove_flag")
    /\ addressed \in Grid
    /\ HasFlag(pre[addressed])
    /\ ~HasFlag(cells[addressed])
    /\ \E q \in Grid : Adjacent(addressed, q) /\ IsEmpty(q) /\ Hidden(cells[q])
    /\ \E q \in Grid \ {addressed} : HasFlag(cells[q])
    /\ \E q \in Grid : Revealed(cells[q])

\* C19: on a board on which the client has only ever called reveal, between
\* two client calls every neighbour of a Revealed Empty cell is Revealed
\* (and no cell carries a flag).
C19_CascadeClosure ==
    Constructed =>
      \A p \in Grid :
        /\ ~HasFlag(cells[p])
        /\ (Revealed(cells[p]) /\ IsEmpty(p))
             => \A q \in Grid : Adjacent(p, q) => Revealed(cells[q])

\* C19 witness: after reveal calls only, an Empty cell with three or more
\* neighbours is Revealed while a cell elsewhere on the board is still
\* Hidden
C19_Witness ==
    /\ Constructed
    /\ \E p \in Grid :
         /\ IsEmpty(p)
         /\ Revealed(cells[p])
         /\ Cardinality({q \in Grid : Adjacent(p, q)}) >= 3
    /\ \E q \in Grid : Hidden(cells[q])
    /\ \E q \in Grid : IsBomb(q) /\ Revealed(cells[q])

====
